---- MODULE Spec2Model ----
(***************************************************************************)
(* Model of rust_blockchain: the hex codec (utils/mod.rs), the block       *)
(* header and the proof-of-work search (core/block_header.rs,              *)
(* core/block.rs), the chain (core/blockchain.rs) and the sled/bincode     *)
(* backed manager (core/blockchain_manager.rs), driven as main.rs and the  *)
(* unit tests drive them.                                                  *)
(*                                                                         *)
(* Text (Rust String / &str) is a sequence of one-character strings.       *)
(* Bytes (Vec<u8>) are sequences of 0..255.                                *)
(***************************************************************************)
EXTENDS Integers, Sequences, FiniteSets, TLC

\* ------------------------------------------------------------------ bounds
\* longest chain (genesis included) the model lets add_block build
MaxChain == 3
\* largest difficulty handed to Block::new / Blockchain::new directly
MaxDifficulty == 31
\* largest nonce the search is followed to
MaxNonce == 12
\* number of calls of next() followed on an iterator that has ended
MaxNones == 2
\* longest byte sequence handed to bytes_to_hex_string
MaxBytes == 2
\* longest text handed to hex_string_to_bytes
MaxText == 4

\* ------------------------------------------------------- program constants
\* Sha256 output size in bytes
DigestLen == 32
\* difficulty BlockchainManager::new gives a freshly created chain
DefaultDifficulty == 4
\* number of "0" characters in the genesis prev_hash_hex
GenesisHexLen == 64

\* ------------------------------------------------------------- text, bytes
HexDigits == <<"0","1","2","3","4","5","6","7","8","9","a","b","c","d","e","f">>

\* characters the model's texts are written in, with their UTF-8 codes
Alphabet ==
  <<"0","1","2","3","4","5","6","7","8","9","a","b","c","d","e","f",
    "g","i","n","s","t","x","A","F","+","-","z">>
AsciiCodes ==
  <<48,49,50,51,52,53,54,55,56,57,97,98,99,100,101,102,
    103,105,110,115,116,120,65,70,43,45,122>>

CharCode(c) == AsciiCodes[CHOOSE i \in 1..Len(Alphabet) : Alphabet[i] = c]
CodeChar(n) == Alphabet[CHOOSE i \in 1..Len(AsciiCodes) : AsciiCodes[i] = n]
IsCode(n) == \E i \in 1..Len(AsciiCodes) : AsciiCodes[i] = n

\* str::repeat
Repeat(c, n) == [i \in 1..n |-> c]

\* format!("{}", n) for an unsigned integer
RECURSIVE DecimalString(_)
DecimalString(n) ==
  IF n < 10 THEN <<HexDigits[n + 1]>>
  ELSE DecimalString(n \div 10) \o <<HexDigits[(n % 10) + 1]>>

\* Vec<String>::join("")
RECURSIVE Join(_)
Join(txs) == IF txs = <<>> THEN <<>> ELSE Head(txs) \o Join(Tail(txs))

\* an encoding that writes the low digit of each byte first
bytes_to_hex_string_low_first(bytes) ==
  [i \in 1..(2 * Len(bytes)) |->
     IF i % 2 = 1
     THEN HexDigits[(bytes[(i + 1) \div 2] % 16) + 1]
     ELSE HexDigits[(bytes[i \div 2] \div 16) + 1]]

\* utils::hash::bytes_to_hex_string : write!("{:02x}", b) folded over the bytes
\* (byte k gives characters 2k-1 and 2k: high digit, low digit)
bytes_to_hex_string(bytes) ==
  [i \in 1..(2 * Len(bytes)) |->
     IF i % 2 = 1
     THEN HexDigits[(bytes[(i + 1) \div 2] \div 16) + 1]
     ELSE HexDigits[(bytes[i \div 2] % 16) + 1]]

\* value of one character as a base-16 digit, -1 when it is none
\* (char::to_digit(16) accepts both cases)
DigitValue(c) ==
  CASE c = "0" -> 0 [] c = "1" -> 1 [] c = "2" -> 2 [] c = "3" -> 3
    [] c = "4" -> 4 [] c = "5" -> 5 [] c = "6" -> 6 [] c = "7" -> 7
    [] c = "8" -> 8 [] c = "9" -> 9
    [] c = "a" -> 10 [] c = "b" -> 11 [] c = "c" -> 12
    [] c = "d" -> 13 [] c = "e" -> 14 [] c = "f" -> 15
    [] c = "A" -> 10 [] c = "F" -> 15
    [] OTHER -> -1

\* u8::from_str_radix(s, 16) on a two-character slice: a leading "+" is
\* dropped, every remaining character must be a digit, the value must fit u8.
\* -1 stands for Err.
from_str_radix(s) ==
  LET body == IF s[1] = "+" THEN Tail(s) ELSE s
  IN  IF body = <<>> \/ \E i \in 1..Len(body) : DigitValue(body[i]) < 0
      THEN -1
      ELSE IF Len(body) = 1 THEN DigitValue(body[1])
           ELSE DigitValue(body[1]) * 16 + DigitValue(body[2])

\* utils::hash::hex_string_to_bytes : (0..len).step_by(2), slice [i, i+2),
\* expect() on the parse.  ok = FALSE stands for the panic (slice past the
\* end on odd length, or "Invalid hex string").
hex_string_to_bytes(hex) ==
  LET steps == (Len(hex) + 1) \div 2
      slice_ok(k) == 2 * k <= Len(hex)
      parsed(k) == from_str_radix(SubSeq(hex, 2 * k - 1, 2 * k))
  IN  IF \A k \in 1..steps : slice_ok(k) /\ parsed(k) >= 0
      THEN [ok |-> TRUE, bytes |-> [k \in 1..steps |-> parsed(k)]]
      ELSE [ok |-> FALSE, bytes |-> <<>>]

\* ----------------------------------------------------------------- digest
\* Sha256 is the sha2 crate's; the model uses a deterministic stand-in with
\* the same shape (text in, DigestLen bytes out).  Its run of leading zero
\* bits is spread over 0..256 so that every difficulty is met by some small
\* nonce and missed by others.
RECURSIVE Mix(_, _, _)
Mix(data, lo, hi) ==
  IF lo > hi THEN 0
  ELSE IF lo = hi THEN (CharCode(data[lo]) * (((lo * lo) + (7 * lo) + 1) % 251)) % 65521
  ELSE (Mix(data, lo, (lo + hi) \div 2) + Mix(data, ((lo + hi) \div 2) + 1, hi)) % 65521

ZeroRuns == <<0, 1, 3, 5, 9, 17, 33, 256>>

\* (data and the sum h are bound by set constructors, which makes each of
\* them a value computed once however often it is used)
Sha256(data) ==
  CHOOSE digest \in
    { LET z == ZeroRuns[(h % Len(ZeroRuns)) + 1]
          top == 2 ^ (7 - (z % 8))
      IN  [i \in 1..DigestLen |->
             IF i - 1 < z \div 8 THEN 0
             ELSE IF i - 1 = z \div 8 THEN top + (h % top)
             ELSE (h * i + i) % 256] :
      h \in { (Mix(d, 1, Len(d)) + (Len(d) * 5381)) % 65521 : d \in {data} } } :
    TRUE

\* ------------------------------------------------------- header and block
\* values SystemTime::now() can give, in seconds (one and two decimal digits)
Timestamps == {9, 10}

\* a header whose nonce starts at 1
BlockHeader_new_nonce_1(prev_hash, difficulty, now) ==
  [timestamp |-> now, prev_hash |-> prev_hash, nonce |-> 1,
   difficulty |-> difficulty]

\* BlockHeader::new, with the clock reading as an input
BlockHeader_new(prev_hash, difficulty, now) ==
  [timestamp |-> now, prev_hash |-> prev_hash, nonce |-> 0,
   difficulty |-> difficulty]

\* Block::new up to the call of mine(): the block with hash vec![]
Block_init(prev_hash, transactions, difficulty, now) ==
  [header |-> BlockHeader_new(prev_hash, difficulty, now),
   transactions |-> transactions,
   hash |-> <<>>]

NoBlock == Block_init(<<>>, <<>>, 0, 0)

\* Block::calculate_hash
calculate_hash(self) ==
  Sha256(DecimalString(self.header.timestamp)
         \o bytes_to_hex_string(self.header.prev_hash)
         \o DecimalString(self.header.nonce)
         \o Join(self.transactions))

\* Block::mine, the three values computed before the loop
target_prefix_len(difficulty) == difficulty \div 8
remaining_bits(difficulty) == difficulty % 8
\* a mask shifted one bit too few
last_byte_mask_off_by_one(difficulty) ==
  IF remaining_bits(difficulty) > 0
  THEN 255 \div (2 ^ (remaining_bits(difficulty) - 1))
  ELSE 0

last_byte_mask(difficulty) ==
  IF remaining_bits(difficulty) > 0
  THEN 255 \div (2 ^ remaining_bits(difficulty))
  ELSE 0

\* <[u8]>::starts_with(&vec![0u8; n])
starts_with_zeros(hash, n) ==
  /\ n <= Len(hash)
  /\ \A i \in 1..n : hash[i] = 0

\* a loop body that compares the byte after the prefix with the mask even
\* when remaining_bits is 0
mine_attempt_no_guard(hash, difficulty) ==
  IF ~starts_with_zeros(hash, target_prefix_len(difficulty)) THEN "miss"
  ELSE IF target_prefix_len(difficulty) >= Len(hash) THEN "panic"
  ELSE IF hash[target_prefix_len(difficulty) + 1] <= last_byte_mask(difficulty)
       THEN "match"
       ELSE "miss"

\* one pass of the loop body of Block::mine on a freshly computed hash:
\* "match" (break), "miss" (nonce += 1) or "panic" (index out of bounds)
mine_attempt(hash, difficulty) ==
  IF ~starts_with_zeros(hash, target_prefix_len(difficulty)) THEN "miss"
  ELSE IF remaining_bits(difficulty) = 0 THEN "match"
  ELSE IF target_prefix_len(difficulty) >= Len(hash) THEN "panic"
  ELSE IF hash[target_prefix_len(difficulty) + 1] <= last_byte_mask(difficulty)
       THEN "match"
       ELSE "miss"

\* ------------------------------------------------------------------ chain
\* a genesis prev_hash_hex of "f"s
genesis_prev_hash_hex_all_f == Repeat("f", GenesisHexLen)

genesis_prev_hash_hex == Repeat("0", GenesisHexLen)
genesis_transactions == << <<"g","e","n","e","s","i","s">> >>

\* a Blockchain::new that sets the chain's difficulty to the default
Blockchain_empty_default(difficulty) ==
  [chain |-> <<>>, difficulty |-> DefaultDifficulty]

\* Blockchain::new before create_genesis_block: chain Vec::new()
Blockchain_empty(difficulty) == [chain |-> <<>>, difficulty |-> difficulty]

\* create_genesis_block that mines the block and forgets to push it
create_genesis_block_no_push(self, genesis_block) == self

\* Blockchain::create_genesis_block, given the mined genesis block
create_genesis_block(self, genesis_block) ==
  [self EXCEPT !.chain = Append(@, genesis_block)]

\* Blockchain::get_last_block : Vec::last()
get_last_block(self) ==
  IF self.chain = <<>> THEN [some |-> FALSE, block |-> NoBlock]
  ELSE [some |-> TRUE, block |-> self.chain[Len(self.chain)]]

\* add_block that links the new block to the first block, not the last
add_block_prev_hash_hex_first(self) ==
  bytes_to_hex_string(self.chain[1].hash)

\* Blockchain::add_block, the prev_hash_hex handed to Block::new
add_block_prev_hash_hex(self) ==
  bytes_to_hex_string(get_last_block(self).block.hash)

\* add_block that inserts the new block at the front
add_block_push_front(self, new_block) ==
  [self EXCEPT !.chain = <<new_block>> \o @]

\* Blockchain::add_block, self.chain.push(new_block)
add_block_push(self, new_block) ==
  [self EXCEPT !.chain = Append(@, new_block)]

\* --------------------------------------------------------------- iterators
\* An iterator borrows the Blockchain: it holds positions only, and reads
\* the chain it was made from at every call of next.
\* IntoIterator for &Blockchain : current_index 0 (back is not used)
into_iter(self) == [reverse |-> FALSE, current_index |-> 0, back |-> 0]

\* Blockchain::iter
iter(self) == into_iter(self)

\* a next that steps over the block after the one it returns
BlockchainIterator_next_skipping(self, blockchain) ==
  IF self.current_index < Len(blockchain.chain)
  THEN [some |-> TRUE, block |-> blockchain.chain[self.current_index + 1],
        it |-> [self EXCEPT !.current_index = @ + 2]]
  ELSE [some |-> FALSE, block |-> NoBlock, it |-> self]

\* BlockchainIterator::next (chain[current_index] of the code is element
\* current_index + 1 of the sequence)
BlockchainIterator_next(self, blockchain) ==
  IF self.current_index < Len(blockchain.chain)
  THEN [some |-> TRUE, block |-> blockchain.chain[self.current_index + 1],
        it |-> [self EXCEPT !.current_index = @ + 1]]
  ELSE [some |-> FALSE, block |-> NoBlock, it |-> self]

\* an iter_reverse that starts one block before the last
iter_reverse_skip_last(self) ==
  [reverse |-> TRUE, current_index |-> 0,
   back |-> IF self.chain = <<>> THEN 0 ELSE Len(self.chain) - 1]

\* Blockchain::iter_reverse : self.chain.iter().rev(), the slice iterator
\* over [current_index, back) that is read from its back end
iter_reverse(self) ==
  [reverse |-> TRUE, current_index |-> 0, back |-> Len(self.chain)]

\* Rev<slice::Iter>::next, which is next_back of the slice iterator
Rev_next(self, blockchain) ==
  IF self.current_index < self.back
  THEN [some |-> TRUE, block |-> blockchain.chain[self.back],
        it |-> [self EXCEPT !.back = @ - 1]]
  ELSE [some |-> FALSE, block |-> NoBlock, it |-> self]

\* ------------------------------------------------------ bincode encoding
\* bincode writes the fields in declaration order, a Vec or String as its
\* length followed by its elements.  One element of the encoding here is one
\* fixed-width integer (u64 length, u64, u32) or one byte.
ser_bytes(bytes) == <<Len(bytes)>> \o bytes
ser_string(str) == <<Len(str)>> \o [i \in 1..Len(str) |-> CharCode(str[i])]
RECURSIVE ser_string_seq(_)
ser_string_seq(strs) ==
  IF strs = <<>> THEN <<>> ELSE ser_string(Head(strs)) \o ser_string_seq(Tail(strs))
ser_strings(strs) == <<Len(strs)>> \o ser_string_seq(strs)

\* a header encoding that writes difficulty before nonce
ser_header_swapped(h) ==
  <<h.timestamp>> \o ser_bytes(h.prev_hash) \o <<h.difficulty, h.nonce>>

ser_header(h) ==
  <<h.timestamp>> \o ser_bytes(h.prev_hash) \o <<h.nonce, h.difficulty>>

ser_block(b) ==
  ser_header(b.header) \o ser_strings(b.transactions) \o ser_bytes(b.hash)

RECURSIVE ser_block_seq(_)
ser_block_seq(blocks) ==
  IF blocks = <<>> THEN <<>> ELSE ser_block(Head(blocks)) \o ser_block_seq(Tail(blocks))

\* bincode::serialize(&Blockchain)
serialize(bc) ==
  <<Len(bc.chain)>> \o ser_block_seq(bc.chain) \o <<bc.difficulty>>

\* Decoding walks the record by position.  A reader that starts at position
\* q gives the position after what it read, or -1 for bincode's Err (the
\* input ended inside the value).
skip_int(data, q) ==
  IF q < 1 \/ q > Len(data) THEN -1 ELSE q + 1

\* a Vec<u8> or String: its length, then that many elements
skip_bytes(data, q) ==
  IF q < 1 \/ q > Len(data) THEN -1
  ELSE IF q + data[q] > Len(data) THEN -1
  ELSE q + data[q] + 1

bytes_at(data, q) == SubSeq(data, q + 1, q + data[q])

\* a String must be valid text
string_ok(data, q) ==
  \A i \in (q + 1)..(q + data[q]) : IsCode(data[i])

string_at(data, q) ==
  [i \in 1..data[q] |-> CodeChar(data[q + i])]

\* n strings one after another, from position q
RECURSIVE skip_string_seq(_, _, _)
skip_string_seq(data, q, n) ==
  IF n = 0 \/ q = -1 THEN q
  ELSE IF skip_bytes(data, q) = -1 THEN -1
  ELSE IF ~string_ok(data, q) THEN -1
  ELSE skip_string_seq(data, skip_bytes(data, q), n - 1)

RECURSIVE string_seq_at(_, _, _)
string_seq_at(data, q, n) ==
  IF n = 0 THEN <<>>
  ELSE <<string_at(data, q)>> \o string_seq_at(data, skip_bytes(data, q), n - 1)

\* Vec<String>: the count, then the strings
skip_strings(data, q) ==
  IF skip_int(data, q) = -1 THEN -1
  ELSE skip_string_seq(data, q + 1, data[q])

strings_at(data, q) == string_seq_at(data, q + 1, data[q])

\* BlockHeader: timestamp, prev_hash, nonce, difficulty
skip_header(data, q) ==
  skip_int(data, skip_int(data, skip_bytes(data, skip_int(data, q))))

de_header(data, q) ==
  [timestamp |-> data[q],
   prev_hash |-> bytes_at(data, q + 1),
   nonce |-> data[skip_bytes(data, q + 1)],
   difficulty |-> data[skip_bytes(data, q + 1) + 1]]

\* Block: header, transactions, hash
skip_block(data, q) ==
  skip_bytes(data, skip_strings(data, skip_header(data, q)))

de_block(data, q) ==
  [header |-> de_header(data, q),
   transactions |-> strings_at(data, skip_header(data, q)),
   hash |-> bytes_at(data, skip_strings(data, skip_header(data, q)))]

\* n blocks one after another, from position q
RECURSIVE skip_block_seq(_, _, _)
skip_block_seq(data, q, n) ==
  IF n = 0 \/ q = -1 THEN q
  ELSE skip_block_seq(data, skip_block(data, q), n - 1)

RECURSIVE block_seq_at(_, _, _)
block_seq_at(data, q, n) ==
  IF n = 0 THEN <<>>
  ELSE <<de_block(data, q)>> \o block_seq_at(data, skip_block(data, q), n - 1)

\* position of the chain's difficulty, -1 when the blocks do not decode
difficulty_pos(data) ==
  IF data = <<>> THEN -1 ELSE skip_block_seq(data, 2, data[1])

\* bincode::deserialize::<Blockchain>(&data): ok = FALSE is Err
deserialize(data) ==
  IF skip_int(data, difficulty_pos(data)) = -1
  THEN [ok |-> FALSE, val |-> Blockchain_empty(0)]
  ELSE [ok |-> TRUE,
        val |-> [chain |-> block_seq_at(data, 2, data[1]),
                 difficulty |-> data[difficulty_pos(data)]]]

\* ---------------------------------------------------------------- manager
\* the record under the key "blockchain": db.get gives None or Some(data)
Absent == [present |-> FALSE, data |-> <<>>]
Record(data) == [present |-> TRUE, data |-> data]
\* a record that ends before its first block is complete
CorruptRecord == Record(<<1, 9>>)

\* a fallback that creates the chain at difficulty 2
manager_load_difficulty_2(record) ==
  IF record.present /\ deserialize(record.data).ok
  THEN [loaded |-> TRUE, blockchain |-> deserialize(record.data).val]
  ELSE [loaded |-> FALSE, blockchain |-> Blockchain_empty(2)]

\* BlockchainManager::new, the match on db.get("blockchain")?: the stored
\* chain when there is one and it deserializes, else Blockchain::new(4)
manager_load(record) ==
  IF record.present /\ deserialize(record.data).ok
  THEN [loaded |-> TRUE, blockchain |-> deserialize(record.data).val]
  ELSE [loaded |-> FALSE, blockchain |-> Blockchain_empty(DefaultDifficulty)]

\* get_blockchain that hands out the manager's own chain
get_blockchain_shared(self) ==
  [held |-> TRUE, shared |-> TRUE, bc |-> self.blockchain]

\* BlockchainManager::get_blockchain : self.blockchain.clone().  The caller
\* gets a value of its own; shared would be TRUE for a handle on the
\* manager's chain.
get_blockchain(self) ==
  [held |-> TRUE, shared |-> FALSE, bc |-> self.blockchain]

\* BlockchainManager::save, what is handed to db.insert
save_record(self) == Record(serialize(self.blockchain))

\* ------------------------------------------------------------------ state
VARIABLES
  pc,          \* "idle", or where the running call is: "mining", "mined", "panicked"
  frame,       \* the running call: its name, the Blockchain it is building, its transactions argument
  blk,         \* the block Block::new is building (self in mine)
  made,        \* the block a direct Block::new call returned
  working,     \* the caller's local Blockchain (main's `blockchain`)
  mgr,         \* the BlockchainManager: whether one is open, and its blockchain
  stored,      \* the content of the store under "blockchain"
  flushed,     \* whether the content of the store has been made durable by a flush
  last,        \* the last call that returned: name, Ok/Err, injected fault
  droppedLen,  \* chain length held by the manager dropped last; 0 when there is
               \* none, or once the manager opened after it has been used
  cursors,     \* the iterators the caller holds over its Blockchain
  codec        \* the call of the hex helpers in utils: argument and result

vars == <<pc, frame, blk, made, working, mgr, stored, flushed, last,
         droppedLen, cursors, codec>>

\* hashes counts the calls of calculate_hash the running mine() has made
NoFrame ==
  [op |-> "none", bc |-> Blockchain_empty(0), transactions |-> <<>>,
   hashes |-> 0]
NotHeld == [held |-> FALSE, shared |-> FALSE, bc |-> Blockchain_empty(0)]
Closed == [open |-> FALSE, blockchain |-> Blockchain_empty(0)]
Returned(op, ok, fault) == [op |-> op, ok |-> ok, fault |-> fault]

\* the iterator slots of the caller; a slot records what its iterator has
\* returned: the blocks in yielded, and the number of None in nones
CursorIds == {1, 2}
NoCursor == [live |-> FALSE, it |-> into_iter(Blockchain_empty(0)),
             yielded |-> <<>>, nones |-> 0]
NewCursor(it) == [live |-> TRUE, it |-> it, yielded |-> <<>>, nones |-> 0]
NoCursors == [k \in CursorIds |-> NoCursor]
\* true while the Blockchain is borrowed by an iterator
Borrowed == \E k \in CursorIds : cursors[k].live

\* no call of a hex helper made yet
NoCall ==
  [op |-> "none", bytes |-> <<>>, text |-> <<>>, decoded |-> <<>>, ok |-> TRUE]

\* arguments callers pass to the hex helpers
SeqsUpTo(S, n) == UNION {[1..m -> S] : m \in 0..n}
ByteChoices == {0, 9, 10, 15, 16, 171, 255}
TextChars == {"0", "a", "F", "g", "+", "-"}

\* transaction lists callers pass to add_block / Block::new
Tx1 == << <<"t","x","1">> >>
Tx2 == << <<"a">>, <<"b","c">> >>
TxChoices == {Tx1, Tx2}

\* prev_hash_hex values callers pass to Block::new
HexChoices == {genesis_prev_hash_hex, <<"1","2","a","b">>}

Init ==
  /\ pc = "idle"
  /\ frame = NoFrame
  /\ blk = NoBlock
  /\ made = NoBlock
  /\ working = NotHeld
  /\ mgr = Closed
  /\ stored \in {Absent, CorruptRecord}
  /\ flushed = TRUE
  /\ last = Returned("none", TRUE, "none")
  /\ droppedLen = 0
  /\ cursors = NoCursors
  /\ codec = NoCall

\* ------------------------------------------------------------- Block::new
\* Block::new entered: decode prev_hash_hex, build the header, hash vec![];
\* the call then runs mine().  A failed decode is the expect() panic.
EnterBlockNew(op, bc, prev_hash_hex, transactions, difficulty, now) ==
  LET decoded == hex_string_to_bytes(prev_hash_hex)
  IN  /\ frame' = [op |-> op, bc |-> bc, transactions |-> transactions,
                   hashes |-> 0]
      /\ IF decoded.ok
         THEN /\ blk' = Block_init(decoded.bytes, transactions, difficulty, now)
              /\ pc' = "mining"
         ELSE /\ blk' = NoBlock
              /\ pc' = "panicked"

\* a loop that adds 1 to the nonce before it tests the hash
MineStep_increment_before_break ==
  /\ pc = "mining"
  /\ LET hash == calculate_hash(blk)
         outcome == mine_attempt(hash, blk.header.difficulty)
     IN  /\ outcome = "miss" => blk.header.nonce < MaxNonce
         /\ blk' = [blk EXCEPT !.hash = hash, !.header.nonce = @ + 1]
         /\ pc' = IF outcome = "match" THEN "mined"
                  ELSE IF outcome = "panic" THEN "panicked" ELSE "mining"
  /\ frame' = [frame EXCEPT !.hashes = @ + 1]
  /\ UNCHANGED <<made, working, mgr, stored, flushed, last, droppedLen,
                 cursors, codec>>

\* a loop that does not add 1 to the nonce after a rejected hash
MineStep_no_increment ==
  /\ pc = "mining"
  /\ LET hash == calculate_hash(blk)
         outcome == mine_attempt(hash, blk.header.difficulty)
     IN  /\ blk' = [blk EXCEPT !.hash = hash]
         /\ pc' = IF outcome = "match" THEN "mined"
                  ELSE IF outcome = "panic" THEN "panicked" ELSE "mining"
  /\ UNCHANGED <<frame, made, working, mgr, stored, flushed, last,
                 droppedLen, cursors, codec>>

\* a loop that reads the clock again after a rejected hash
MineStep_new_timestamp ==
  /\ pc = "mining"
  /\ LET hash == calculate_hash(blk)
         outcome == mine_attempt(hash, blk.header.difficulty)
     IN  IF outcome = "match"
         THEN /\ blk' = [blk EXCEPT !.hash = hash]
              /\ pc' = "mined"
         ELSE IF outcome = "panic"
         THEN /\ blk' = [blk EXCEPT !.hash = hash]
              /\ pc' = "panicked"
         ELSE /\ blk.header.nonce < MaxNonce
              /\ blk' = [blk EXCEPT !.hash = hash, !.header.nonce = @ + 1,
                                    !.header.timestamp = 10]
              /\ pc' = "mining"
  /\ frame' = [frame EXCEPT !.hashes = @ + 1]
  /\ UNCHANGED <<made, working, mgr, stored, flushed, last, droppedLen,
                 cursors, codec>>

\* one pass of the loop of Block::mine
MineStep ==
  /\ pc = "mining"
  /\ LET hash == calculate_hash(blk)
         outcome == mine_attempt(hash, blk.header.difficulty)
     IN  IF outcome = "match"
         THEN /\ blk' = [blk EXCEPT !.hash = hash]
              /\ pc' = "mined"
         ELSE IF outcome = "panic"
         THEN /\ blk' = [blk EXCEPT !.hash = hash]
              /\ pc' = "panicked"
         ELSE /\ blk.header.nonce < MaxNonce
              /\ blk' = [blk EXCEPT !.hash = hash, !.header.nonce = @ + 1]
              /\ pc' = "mining"
  /\ frame' = [frame EXCEPT !.hashes = @ + 1]
  /\ UNCHANGED <<made, working, mgr, stored, flushed, last, droppedLen,
                 cursors, codec>>

\* a test calls Block::new(prev_hash_hex, transactions, difficulty)
BlockNewCall(prev_hash_hex, transactions, difficulty, now) ==
  /\ pc = "idle"
  /\ EnterBlockNew("block_new", NoFrame.bc, prev_hash_hex, transactions,
                   difficulty, now)
  /\ made' = NoBlock
  /\ UNCHANGED <<working, mgr, stored, flushed, last, droppedLen, cursors, codec>>

BlockNewReturn ==
  /\ pc = "mined"
  /\ frame.op = "block_new"
  /\ made' = blk
  /\ pc' = "idle"
  /\ frame' = NoFrame
  /\ blk' = NoBlock
  /\ last' = Returned("block_new", TRUE, "none")
  /\ UNCHANGED <<working, mgr, stored, flushed, droppedLen, cursors, codec>>

\* a mine() that starts its search over from nonce 0
RemineCall_from_zero ==
  /\ pc = "idle"
  /\ made # NoBlock
  /\ blk' = [made EXCEPT !.header.nonce = 0]
  /\ frame' = [op |-> "remine", bc |-> NoFrame.bc,
               transactions |-> made.transactions, hashes |-> 0]
  /\ pc' = "mining"
  /\ UNCHANGED <<made, working, mgr, stored, flushed, last, droppedLen,
                 cursors, codec>>

\* block.mine() called on the block Block::new returned: mine() computes
\* its target and enters the loop with the block as it is.  made keeps the
\* block as it was before the call until mine() returns.
RemineCall ==
  /\ pc = "idle"
  /\ made # NoBlock
  /\ blk' = made
  /\ frame' = [op |-> "remine", bc |-> NoFrame.bc,
               transactions |-> made.transactions, hashes |-> 0]
  /\ pc' = "mining"
  /\ UNCHANGED <<made, working, mgr, stored, flushed, last, droppedLen,
                 cursors, codec>>

RemineReturn ==
  /\ pc = "mined"
  /\ frame.op = "remine"
  /\ made' = blk
  /\ pc' = "idle"
  /\ frame' = NoFrame
  /\ blk' = NoBlock
  /\ last' = Returned("remine", TRUE, "none")
  /\ UNCHANGED <<working, mgr, stored, flushed, droppedLen, cursors, codec>>

\* ------------------------------------------------------------- Blockchain
\* a caller (the unit tests) calls Blockchain::new(difficulty)
ChainNewCall(difficulty, now) ==
  /\ pc = "idle"
  /\ ~working.held
  /\ EnterBlockNew("chain_new", Blockchain_empty(difficulty),
                   genesis_prev_hash_hex, genesis_transactions, difficulty, now)
  /\ UNCHANGED <<made, working, mgr, stored, flushed, last, droppedLen, cursors, codec>>

ChainNewReturn ==
  /\ pc = "mined"
  /\ frame.op = "chain_new"
  /\ working' = [held |-> TRUE, shared |-> FALSE,
                 bc |-> create_genesis_block(frame.bc, blk)]
  /\ pc' = "idle"
  /\ frame' = NoFrame
  /\ blk' = NoBlock
  /\ last' = Returned("chain_new", TRUE, "none")
  /\ UNCHANGED <<made, mgr, stored, flushed, droppedLen, cursors, codec>>

\* the caller calls add_block(transactions) on its Blockchain: the
\* ok_or(..)? return on an empty chain, else Block::new is entered
AddBlockCall(transactions, now) ==
  /\ pc = "idle"
  /\ working.held
  /\ Len(working.bc.chain) < MaxChain
  /\ IF ~get_last_block(working.bc).some
     THEN /\ last' = Returned("add_block", FALSE, "empty")
          /\ UNCHANGED <<pc, frame, blk>>
     ELSE /\ EnterBlockNew("add_block", NoFrame.bc,
                           add_block_prev_hash_hex(working.bc), transactions,
                           working.bc.difficulty, now)
          /\ last' = last
  /\ UNCHANGED <<made, working, mgr, stored, flushed, droppedLen, cursors, codec>>

\* Block::new has returned: push, Ok(())
AddBlockReturn ==
  /\ pc = "mined"
  /\ frame.op = "add_block"
  /\ working' = [working EXCEPT !.bc = add_block_push(@, blk)]
  /\ mgr' = IF working.shared
            THEN [mgr EXCEPT !.blockchain = add_block_push(@, blk)]
            ELSE mgr
  /\ pc' = "idle"
  /\ frame' = NoFrame
  /\ blk' = NoBlock
  /\ last' = Returned("add_block", TRUE, "none")
  /\ UNCHANGED <<made, stored, flushed, droppedLen, cursors, codec>>

\* -------------------------------------------------------------- iterators
\* let mut iter = blockchain.iter();  in slot k of the caller
IterCall(k) ==
  /\ pc = "idle"
  /\ working.held
  /\ ~cursors[k].live
  /\ cursors' = [cursors EXCEPT ![k] = NewCursor(iter(working.bc))]
  /\ UNCHANGED <<pc, frame, blk, made, working, mgr, stored, flushed, last,
                 droppedLen, codec>>

\* let mut iter = blockchain.iter_reverse();
IterReverseCall(k) ==
  /\ pc = "idle"
  /\ working.held
  /\ ~cursors[k].live
  /\ cursors' = [cursors EXCEPT ![k] = NewCursor(iter_reverse(working.bc))]
  /\ UNCHANGED <<pc, frame, blk, made, working, mgr, stored, flushed, last,
                 droppedLen, codec>>

\* iter.next() on the iterator in slot k; calls after the end are followed
\* MaxNones times
IterNext(k) ==
  /\ pc = "idle"
  /\ cursors[k].live
  /\ cursors[k].nones < MaxNones
  /\ LET result == IF cursors[k].it.reverse
                   THEN Rev_next(cursors[k].it, working.bc)
                   ELSE BlockchainIterator_next(cursors[k].it, working.bc)
     IN  cursors' = [cursors EXCEPT ![k] =
           [live |-> TRUE,
            it |-> result.it,
            yielded |-> IF result.some THEN Append(@.yielded, result.block)
                        ELSE @.yielded,
            nones |-> IF result.some THEN @.nones ELSE @.nones + 1]]
  /\ UNCHANGED <<pc, frame, blk, made, working, mgr, stored, flushed, last,
                 droppedLen, codec>>

\* the iterator in slot k goes out of scope: the borrow ends
IterDrop(k) ==
  /\ pc = "idle"
  /\ cursors[k].live
  /\ cursors' = [cursors EXCEPT ![k] = NoCursor]
  /\ UNCHANGED <<pc, frame, blk, made, working, mgr, stored, flushed, last,
                 droppedLen, codec>>

\* ------------------------------------------------------------- hex helpers
\* bytes_to_hex_string(&bytes) called
BytesToHexCall(bytes) ==
  /\ pc = "idle"
  /\ codec.op = "none"
  /\ codec' = [op |-> "bytes_to_hex_string", bytes |-> bytes,
               text |-> bytes_to_hex_string(bytes), decoded |-> <<>>,
               ok |-> TRUE]
  /\ UNCHANGED <<pc, frame, blk, made, working, mgr, stored, flushed, last,
                 droppedLen, cursors>>

\* hex_string_to_bytes(hex) called; ok = FALSE is the panic
HexToBytesCall(hex) ==
  /\ pc = "idle"
  /\ codec.op = "none"
  /\ codec' = [op |-> "hex_string_to_bytes", bytes |-> <<>>, text |-> hex,
               decoded |-> hex_string_to_bytes(hex).bytes,
               ok |-> hex_string_to_bytes(hex).ok]
  /\ UNCHANGED <<pc, frame, blk, made, working, mgr, stored, flushed, last,
                 droppedLen, cursors>>

\* hex_string_to_bytes called on the text bytes_to_hex_string returned, as
\* calculate_hash and add_block followed by Block::new do
HexToBytesOfResult ==
  /\ pc = "idle"
  /\ codec.op = "bytes_to_hex_string"
  /\ codec' = [codec EXCEPT !.op = "round_trip",
                            !.decoded = hex_string_to_bytes(codec.text).bytes,
                            !.ok = hex_string_to_bytes(codec.text).ok]
  /\ UNCHANGED <<pc, frame, blk, made, working, mgr, stored, flushed, last,
                 droppedLen, cursors>>

\* ------------------------------------------------------ BlockchainManager
\* BlockchainManager::new when open(db_path)? or db.get(..)? returns Err
OpenFail(fault) ==
  /\ pc = "idle"
  /\ ~mgr.open
  /\ last' = Returned("open", FALSE, fault)
  /\ UNCHANGED <<pc, frame, blk, made, working, mgr, stored, flushed, droppedLen, cursors, codec>>

\* BlockchainManager::new when the record is there and deserializes
OpenLoad ==
  /\ pc = "idle"
  /\ ~mgr.open
  /\ manager_load(stored).loaded
  /\ mgr' = [open |-> TRUE, blockchain |-> manager_load(stored).blockchain]
  /\ last' = Returned("open", TRUE, "none")
  /\ UNCHANGED <<pc, frame, blk, made, working, stored, flushed, droppedLen, cursors, codec>>

\* BlockchainManager::new when it is not: Blockchain::new(4) is entered
OpenFreshCall(now) ==
  /\ pc = "idle"
  /\ ~mgr.open
  /\ LET load == manager_load(stored)
     IN  /\ ~load.loaded
         /\ EnterBlockNew("open", load.blockchain, genesis_prev_hash_hex,
                          genesis_transactions, load.blockchain.difficulty, now)
  /\ UNCHANGED <<made, working, mgr, stored, flushed, last, droppedLen, cursors, codec>>

OpenFreshReturn ==
  /\ pc = "mined"
  /\ frame.op = "open"
  /\ mgr' = [open |-> TRUE, blockchain |-> create_genesis_block(frame.bc, blk)]
  /\ pc' = "idle"
  /\ frame' = NoFrame
  /\ blk' = NoBlock
  /\ last' = Returned("open", TRUE, "none")
  /\ UNCHANGED <<made, working, stored, flushed, droppedLen, cursors, codec>>

\* let mut blockchain = blockchain_manager.get_blockchain();
GetBlockchain ==
  /\ pc = "idle"
  /\ mgr.open
  /\ working' = get_blockchain(mgr)
  /\ last' = Returned("get_blockchain", TRUE, "none")
  /\ droppedLen' = 0
  /\ UNCHANGED <<pc, frame, blk, made, mgr, stored, flushed, cursors, codec>>

\* blockchain_manager.blockchain = blockchain;  (the local is moved)
Assign ==
  /\ pc = "idle"
  /\ mgr.open
  /\ working.held
  /\ mgr' = [mgr EXCEPT !.blockchain = working.bc]
  /\ working' = NotHeld
  /\ last' = Returned("assign", TRUE, "none")
  /\ droppedLen' = 0
  /\ UNCHANGED <<pc, frame, blk, made, stored, flushed, cursors, codec>>

\* BlockchainManager::save.  fault names the step the environment fails:
\* serialize (Err returned), insert (Err returned by ?), flush (its result
\* is bound to _ and save goes on to Ok(())).
Save(fault) ==
  /\ pc = "idle"
  /\ mgr.open
  /\ IF fault \in {"serialize", "insert"}
     THEN /\ last' = Returned("save", FALSE, fault)
          /\ UNCHANGED <<stored, flushed>>
     ELSE /\ stored' = save_record(mgr)
          /\ flushed' = (fault # "flush")
          /\ last' = Returned("save", TRUE, fault)
  /\ droppedLen' = 0
  /\ UNCHANGED <<pc, frame, blk, made, working, mgr, cursors, codec>>

\* the manager goes out of scope; BlockchainManager has no Drop of its own
DropManager ==
  /\ pc = "idle"
  /\ mgr.open
  /\ mgr' = Closed
  /\ droppedLen' = Len(mgr.blockchain.chain)
  /\ last' = Returned("drop", TRUE, "none")
  /\ UNCHANGED <<pc, frame, blk, made, working, stored, flushed, cursors, codec>>

\* ---------------------------------------------------------- specifications
\* the manager, the caller's chain and the store
Next ==
  \/ \E now \in Timestamps : OpenFreshCall(now)
  \/ OpenFreshReturn
  \/ OpenLoad
  \/ \E fault \in {"open", "get"} : OpenFail(fault)
  \/ GetBlockchain
  \/ \E tx \in TxChoices, now \in Timestamps : AddBlockCall(tx, now)
  \/ AddBlockReturn
  \/ MineStep
  \/ Assign
  \/ \E fault \in {"none", "serialize", "insert", "flush"} : Save(fault)
  \/ DropManager

Spec == Init /\ [][Next]_vars

\* Blockchain::new and add_block called directly, as the unit tests of
\* blockchain.rs do, for every difficulty up to MaxDifficulty
NextChain ==
  \/ \E d \in 0..MaxDifficulty, now \in Timestamps : ChainNewCall(d, now)
  \/ ChainNewReturn
  \/ \E tx \in TxChoices, now \in Timestamps : AddBlockCall(tx, now)
  \/ AddBlockReturn
  \/ MineStep

SpecChain == Init /\ [][NextChain]_vars

\* a chain built as the tests of blockchain.rs build one, and iterators over
\* it; the chain cannot be changed while an iterator borrows it
NextIter ==
  \/ \E d \in {0, 2}, now \in Timestamps : ChainNewCall(d, now)
  \/ ChainNewReturn
  \/ \E tx \in TxChoices, now \in Timestamps : ~Borrowed /\ AddBlockCall(tx, now)
  \/ AddBlockReturn
  \/ MineStep
  \/ \E k \in CursorIds : IterCall(k)
  \/ \E k \in CursorIds : IterReverseCall(k)
  \/ \E k \in CursorIds : IterNext(k)
  \/ \E k \in CursorIds : IterDrop(k)

SpecIter == Init /\ [][NextIter]_vars

\* the hex helpers called directly, as the doc examples of utils do
NextHex ==
  \/ \E bytes \in SeqsUpTo(ByteChoices, MaxBytes) : BytesToHexCall(bytes)
  \/ \E hex \in SeqsUpTo(TextChars, MaxText) : HexToBytesCall(hex)
  \/ HexToBytesOfResult

SpecHex == Init /\ [][NextHex]_vars

\* Block::new called directly, for every difficulty up to MaxDifficulty
NextBlock ==
  \/ \E hex \in HexChoices, tx \in TxChoices \cup {<<>>},
        d \in 0..MaxDifficulty, now \in Timestamps :
       BlockNewCall(hex, tx, d, now)
  \/ MineStep
  \/ BlockNewReturn

SpecBlock == Init /\ [][NextBlock]_vars

\* Block::new called directly with difficulties up to and past the number
\* of bits of a digest
MineDifficulties == {0, 1, 7, 8, 9, MaxDifficulty, 255, 256, 257, 263, 264}

NextMine ==
  \/ \E hex \in HexChoices, tx \in TxChoices \cup {<<>>},
        d \in MineDifficulties, now \in Timestamps :
       BlockNewCall(hex, tx, d, now)
  \/ MineStep
  \/ BlockNewReturn

SpecMine == Init /\ [][NextMine]_vars

\* the same under the scheduling of a sequential program: a call that can
\* take its next step takes it
SpecMineFair ==
  Init /\ [][NextMine]_vars /\ WF_vars(MineStep) /\ WF_vars(BlockNewReturn)

\* Block::new followed by further calls of mine() on the block, as
\* test_mine_valid_hash does
NextRemine ==
  \/ \E hex \in HexChoices, tx \in TxChoices \cup {<<>>},
        d \in 0..MaxDifficulty, now \in Timestamps :
       BlockNewCall(hex, tx, d, now)
  \/ MineStep
  \/ BlockNewReturn
  \/ RemineCall
  \/ RemineReturn

SpecRemine == Init /\ [][NextRemine]_vars

\* ----------------------------------------------------------------- claims
\* every Blockchain value there is: the caller's, the manager's, and the one
\* a manager opened now would load from the store
Chains ==
  (IF working.held THEN {working.bc} ELSE {})
  \cup (IF mgr.open THEN {mgr.blockchain} ELSE {})
  \cup (IF stored.present /\ deserialize(stored.data).ok
        THEN {deserialize(stored.data).val} ELSE {})

IsPrefix(s, t) == Len(s) <= Len(t) /\ SubSeq(t, 1, Len(s)) = s

ZeroBytes(n) == [i \in 1..n |-> 0]

\* C1: in every chain, the block at each index i > 0 has header.prev_hash
\* equal, byte for byte, to the hash of the block at i-1.
C1_HashLinks ==
  \A bc \in Chains : \A i \in 2..Len(bc.chain) :
    bc.chain[i].header.prev_hash = bc.chain[i - 1].hash

\* a chain of three blocks that a manager loaded from a saved record
C1_Witness ==
  /\ last.op = "open"
  /\ mgr.open
  /\ Len(mgr.blockchain.chain) = 3
  /\ mgr.blockchain.chain[3].header.prev_hash = mgr.blockchain.chain[2].hash
  /\ mgr.blockchain.chain[2].hash # mgr.blockchain.chain[1].hash

\* C2: no chain is ever empty: get_last_block gives a block on every chain,
\* and add_block has never returned its "Blockchain is empty" error.
C2_NeverEmpty ==
  /\ \A bc \in Chains : Len(bc.chain) >= 1 /\ get_last_block(bc).some
  /\ ~(last.op = "add_block" /\ ~last.ok)

\* add_block has returned Ok on a chain that went through save and open
C2_Witness ==
  /\ last.op = "add_block"
  /\ last.ok
  /\ working.held
  /\ Len(working.bc.chain) = 3
  /\ stored.present
  /\ deserialize(stored.data).ok

\* C3: in every chain the block at index 0 has a prev_hash of 32 zero bytes
\* and the transactions ["genesis"].
C3_Genesis ==
  \A bc \in Chains :
    /\ bc.chain # <<>>
    /\ bc.chain[1].header.prev_hash = ZeroBytes(32)
    /\ bc.chain[1].transactions = << <<"g","e","n","e","s","i","s">> >>

\* a chain that has grown by two blocks and still starts with genesis
C3_Witness ==
  /\ working.held
  /\ Len(working.bc.chain) = 3
  /\ working.bc.chain[1].transactions = genesis_transactions
  /\ working.bc.chain[3].transactions # genesis_transactions

\* bit k of a hash, counted from the most significant bit of byte 0
Bit(hash, k) == (hash[(k \div 8) + 1] \div (2 ^ (7 - (k % 8)))) % 2

TopBitsZero(hash, d) ==
  /\ d <= 8 * Len(hash)
  /\ \A k \in 0..(d - 1) : Bit(hash, k) = 0

\* the rule as the specification words it
ByteRule(hash, d) ==
  /\ \A i \in 1..(d \div 8) : hash[i] = 0
  /\ (d % 8 > 0) => hash[(d \div 8) + 1] <= 255 \div (2 ^ (d % 8))

\* C4: for every difficulty d in [0, 32) the block Block::new returns has a
\* hash whose first d/8 bytes are zero and whose byte d/8 is at most
\* 0xFF >> (d%8) when d%8 > 0; and the search accepts a candidate hash
\* exactly when its top d bits are all zero.
C4_MinedMeetsTarget ==
  /\ (pc = "idle" /\ made # NoBlock) =>
       /\ Len(made.hash) = 32
       /\ ByteRule(made.hash, made.header.difficulty)
       /\ TopBitsZero(made.hash, made.header.difficulty)
  /\ (Len(blk.hash) = 32) =>
       \A d \in 0..MaxDifficulty :
         (mine_attempt(blk.hash, d) = "match") <=> TopBitsZero(blk.hash, d)

\* Block::new has returned a block of the highest difficulty after
\* rejecting at least one nonce
C4_Witness ==
  /\ pc = "idle"
  /\ made # NoBlock
  /\ made.header.difficulty = 31
  /\ made.header.nonce > 0
  /\ made.hash[4] <= 1

\* the step in which add_block returns Ok
AddBlockReturns == pc = "mined" /\ frame.op = "add_block"

\* C5: a successful add_block(tx) makes the chain one block longer, the new
\* last block carries tx in the same order, every block that was there and
\* the chain's difficulty are unchanged; and no step shrinks or reorders a
\* chain held by the caller or by the manager.
C5_AppendOnly ==
  [][ /\ AddBlockReturns =>
           /\ working'.held
           /\ Len(working'.bc.chain) = Len(working.bc.chain) + 1
           /\ SubSeq(working'.bc.chain, 1, Len(working.bc.chain)) = working.bc.chain
           /\ working'.bc.chain[Len(working'.bc.chain)].transactions = frame.transactions
           /\ working'.bc.difficulty = working.bc.difficulty
      /\ (working.held /\ working'.held /\ last'.op # "get_blockchain") =>
           /\ IsPrefix(working.bc.chain, working'.bc.chain)
           /\ Len(working'.bc.chain) <= Len(working.bc.chain) + 1
      /\ (mgr.open /\ mgr'.open /\ last'.op # "assign") =>
           mgr'.blockchain = mgr.blockchain
    ]_vars

\* add_block has returned on a chain that already had two blocks
C5_Witness ==
  /\ last.op = "add_block"
  /\ last.ok
  /\ working.held
  /\ Len(working.bc.chain) = 3
  /\ working.bc.chain[3].transactions = Tx2
  /\ working.bc.chain[2].transactions = Tx1

\* C6: after save has returned Ok, a manager opened on the same path gets a
\* chain equal to the saved manager's chain in every field (length,
\* difficulty, and per block timestamp, prev_hash, nonce, difficulty,
\* transactions and hash), whatever the record was before; and a manager
\* that loaded a record holds exactly what the record encodes.
C6_SaveReload ==
  /\ (last.op = "save" /\ last.ok) =>
       /\ stored.present
       /\ deserialize(stored.data).ok
       /\ deserialize(stored.data).val = mgr.blockchain
       /\ manager_load(stored).loaded
       /\ manager_load(stored).blockchain = mgr.blockchain
  /\ (last.op = "open" /\ last.ok /\ stored.present /\ deserialize(stored.data).ok) =>
       /\ mgr.blockchain = deserialize(stored.data).val
       /\ serialize(mgr.blockchain) = stored.data

\* a manager has loaded a three-block chain, with a block of nonzero nonce,
\* from a record written by save
C6_Witness ==
  /\ last.op = "open"
  /\ last.ok
  /\ mgr.open
  /\ Len(mgr.blockchain.chain) = 3
  /\ \E i \in 1..3 : mgr.blockchain.chain[i].header.nonce
                       \notin {0, mgr.blockchain.chain[i].header.difficulty}
  /\ serialize(mgr.blockchain) = stored.data

\* C7: add_block on the chain returned by get_blockchain leaves the
\* manager's chain and the store unchanged; and a save made while the caller
\* still holds its grown copy writes the manager's chain, with none of the
\* blocks added to the copy.
C7_IndependentCopy ==
  [][ /\ AddBlockReturns => (mgr' = mgr /\ stored' = stored)
      /\ (last'.op = "save" /\ last'.ok /\ working'.held) =>
           /\ deserialize(stored'.data).val = mgr'.blockchain
           /\ IsPrefix(mgr'.blockchain.chain, working'.bc.chain) =>
                \A i \in (Len(mgr'.blockchain.chain) + 1)..Len(working'.bc.chain) :
                  \A j \in 1..Len(deserialize(stored'.data).val.chain) :
                    deserialize(stored'.data).val.chain[j] # working'.bc.chain[i]
    ]_vars

\* save has returned Ok while the caller holds a copy two blocks longer than
\* the manager's chain
C7_Witness ==
  /\ last.op = "save"
  /\ last.ok
  /\ mgr.open
  /\ working.held
  /\ IsPrefix(mgr.blockchain.chain, working.bc.chain)
  /\ Len(mgr.blockchain.chain) = 1
  /\ Len(working.bc.chain) = 3
  /\ Len(deserialize(stored.data).val.chain) = 1

\* C8: when the store opens and the record is absent or does not
\* deserialize, BlockchainManager::new returns Ok with a chain of length 1
\* (genesis only) at difficulty 4; the only errors it returns are those of
\* open and get.
C8_FreshOnMissingOrCorrupt ==
  /\ (last.op = "open" /\ last.fault = "none"
      /\ (~stored.present \/ ~deserialize(stored.data).ok)) =>
       /\ last.ok
       /\ mgr.open
       /\ Len(mgr.blockchain.chain) = 1
       /\ mgr.blockchain.difficulty = 4
       /\ mgr.blockchain.chain[1].header.difficulty = 4
       /\ mgr.blockchain.chain[1].transactions = << <<"g","e","n","e","s","i","s">> >>
  /\ (last.op = "open" /\ ~last.ok) => last.fault \in {"open", "get"}

\* a manager has been opened on a store whose record is corrupt
C8_Witness ==
  /\ last.op = "open"
  /\ last.ok
  /\ stored = CorruptRecord
  /\ mgr.open
  /\ Len(mgr.blockchain.chain) = 1

\* C9 (as claimed): save returns an error whenever serialization, the write
\* or the flush fails, and Ok only when the record was written and flushed.
C9_SaveReportsFailures ==
  (last.op = "save") =>
    /\ (last.fault # "none") => ~last.ok
    /\ last.ok => (stored = save_record(mgr) /\ flushed)

\* C10 (as claimed): on a store that save never wrote, a manager opened
\* after a manager holding a two-block chain was dropped loads a chain of
\* length 2.
C10_DropPersists ==
  (last.op = "open" /\ last.ok /\ droppedLen = 2 /\ stored = Absent) =>
    Len(mgr.blockchain.chain) = 2

Reverse(s) == [i \in 1..Len(s) |-> s[Len(s) + 1 - i]]

\* C11: for any chain, the blocks iter() produces, reversed, are the blocks
\* iter_reverse() produces: whenever an iter() iterator and an
\* iter_reverse() iterator over the caller's chain have both run to their
\* end, the one's output reversed is the other's output.
C11_ReverseOfIter ==
  \A j \in CursorIds, k \in CursorIds :
    (/\ cursors[j].live /\ ~cursors[j].it.reverse /\ cursors[j].nones > 0
     /\ cursors[k].live /\ cursors[k].it.reverse /\ cursors[k].nones > 0)
    => Reverse(cursors[j].yielded) = cursors[k].yielded

\* both iterators have ended over a chain of three different blocks
C11_Witness ==
  /\ working.held
  /\ Len(working.bc.chain) = 3
  /\ cursors[1].live /\ ~cursors[1].it.reverse /\ cursors[1].nones > 0
  /\ cursors[2].live /\ cursors[2].it.reverse /\ cursors[2].nones > 0
  /\ Len(cursors[1].yielded) = 3
  /\ cursors[2].yielded[1] = cursors[1].yielded[3]
  /\ cursors[2].yielded[1] # cursors[2].yielded[3]

LowerHexChars ==
  {"0","1","2","3","4","5","6","7","8","9","a","b","c","d","e","f"}

\* C12: hex_string_to_bytes(bytes_to_hex_string(b)) = b for every byte
\* sequence b, and bytes_to_hex_string(b) has 2 * len(b) characters, each
\* one of 0-9 a-f.
C12_HexRoundTrip ==
  /\ codec.op \in {"bytes_to_hex_string", "round_trip"}
       => /\ Len(codec.text) = 2 * Len(codec.bytes)
          /\ \A i \in 1..Len(codec.text) : codec.text[i] \in LowerHexChars
  /\ codec.op = "round_trip" => codec.ok /\ codec.decoded = codec.bytes

\* the bytes ab 09 written as "ab09" and read back
C12_Witness ==
  /\ codec.op = "round_trip"
  /\ codec.bytes = <<171, 9>>
  /\ codec.text = <<"a", "b", "0", "9">>
  /\ codec.decoded = <<171, 9>>

AllHexChars == LowerHexChars \cup {"A", "B", "C", "D", "E", "F"}

\* C13: hex_string_to_bytes returns bytes exactly for the texts of even
\* length whose characters are all hex digits, and aborts on every other
\* text.
C13_DecodeOnlyHex ==
  codec.op = "hex_string_to_bytes"
    => (codec.ok <=> /\ Len(codec.text) % 2 = 0
                     /\ \A i \in 1..Len(codec.text) :
                          codec.text[i] \in AllHexChars)

\* C14: at difficulty 0 the block Block::new returns has nonce 0 and took
\* exactly one hash computation, whatever prev_hash and transactions are.
C14_DifficultyZero ==
  /\ (pc = "mined" /\ blk.header.difficulty = 0) =>
       blk.header.nonce = 0 /\ frame.hashes = 1
  /\ (pc = "mining" /\ blk.header.difficulty = 0) => frame.hashes = 0
  /\ (made # NoBlock /\ made.header.difficulty = 0) => made.header.nonce = 0

\* mine() has accepted, at difficulty 0, a first hash whose first byte is
\* not zero
C14_Witness ==
  /\ pc = "mined"
  /\ blk.header.difficulty = 0
  /\ blk.header.nonce = 0
  /\ frame.hashes = 1
  /\ blk.hash[1] > 0
  /\ blk.transactions # <<>>

\* the digest of a block's fields as the specification writes it, with the
\* nonce n in place of the block's
DigestAt(b, n) ==
  Sha256(DecimalString(b.header.timestamp)
         \o bytes_to_hex_string(b.header.prev_hash)
         \o DecimalString(n)
         \o Join(b.transactions))

\* C15: in every block of every chain the stored hash is the digest of the
\* block's own final fields (timestamp, hex of prev_hash, final nonce,
\* joined transactions), never that of an earlier nonce; and the hash is
\* empty only before mining completes.
C15_HashOfFinalFields ==
  /\ \A bc \in Chains : \A i \in 1..Len(bc.chain) :
       /\ bc.chain[i].hash = DigestAt(bc.chain[i], bc.chain[i].header.nonce)
       /\ bc.chain[i].hash # <<>>
  /\ pc = "mined" =>
       /\ blk.hash = DigestAt(blk, blk.header.nonce)
       /\ blk.hash # <<>>
  /\ (pc = "mining" /\ frame.hashes = 0) => blk.hash = <<>>

\* a block that was mined past a rejected nonce is in the caller's chain
C15_Witness ==
  /\ working.held
  /\ Len(working.bc.chain) >= 2
  /\ working.bc.chain[2].header.nonce > 0
  /\ working.bc.chain[2].hash = DigestAt(working.bc.chain[2], working.bc.chain[2].header.nonce)
  /\ working.bc.chain[2].hash # DigestAt(working.bc.chain[2], working.bc.chain[2].header.nonce - 1)

\* C16: the search hashes the nonces 0, 1, 2, ... once each in that order:
\* the nonce of the returned block is the least one whose hash qualifies,
\* every lower nonce gives a hash that does not, and the number of hash
\* computations made is the number of nonces tried.
C16_LeastNonce ==
  /\ pc = "mining" => frame.hashes = blk.header.nonce
  /\ pc = "mined" =>
       /\ frame.hashes = blk.header.nonce + 1
       /\ TopBitsZero(DigestAt(blk, blk.header.nonce), blk.header.difficulty)
       /\ \A n \in 0..(blk.header.nonce - 1) :
            ~TopBitsZero(DigestAt(blk, n), blk.header.difficulty)
  /\ made # NoBlock =>
       /\ TopBitsZero(DigestAt(made, made.header.nonce), made.header.difficulty)
       /\ \A n \in 0..(made.header.nonce - 1) :
            ~TopBitsZero(DigestAt(made, n), made.header.difficulty)

\* Block::new has returned a block after rejecting nonces 0 and 1 at least
C16_Witness ==
  /\ pc = "idle"
  /\ made # NoBlock
  /\ made.header.nonce >= 2
  /\ ~TopBitsZero(DigestAt(made, 0), made.header.difficulty)
  /\ ~TopBitsZero(DigestAt(made, 1), made.header.difficulty)

\* C17: for a difficulty below 256, when some nonce counted up from 0 gives
\* a qualifying hash, Block::new eventually returns; and a block it returns
\* always has a qualifying hash.
C17_MiningTerminates ==
  /\ [](made # NoBlock => TopBitsZero(made.hash, made.header.difficulty))
  /\ (/\ pc = "mining"
      /\ blk.header.difficulty < 8 * DigestLen
      /\ \E n \in 0..MaxNonce :
           TopBitsZero(DigestAt(blk, n), blk.header.difficulty))
       ~> (pc = "idle" /\ last.op = "block_new" /\ made # NoBlock)

\* Block::new has returned a block of difficulty 255 found after a rejected
\* nonce
C17_Witness ==
  /\ pc = "idle"
  /\ made # NoBlock
  /\ made.header.difficulty = 255
  /\ made.header.nonce > 0

\* C18: whatever the difficulty (256 and above included) and the candidate
\* hash, a pass of the mining loop accepts the hash or goes on to the next
\* nonce; mining never aborts.
C18_MiningNeverAborts == pc # "panicked"

\* C19: mining changes nothing but the header's nonce and the block's hash:
\* timestamp, prev_hash, difficulty and transactions are from construction
\* to return what Block::new was given, the block pushed is the block
\* mine() left, and a block that is in the chain is never changed again.
C19_MiningFrame ==
  [][ /\ (pc = "idle" /\ pc' = "mining") =>
           /\ blk'.transactions = frame'.transactions
           /\ blk'.header.nonce = 0
      /\ pc = "mining" =>
           /\ blk'.header.timestamp = blk.header.timestamp
           /\ blk'.header.prev_hash = blk.header.prev_hash
           /\ blk'.header.difficulty = blk.header.difficulty
           /\ blk'.transactions = blk.transactions
           /\ frame'.transactions = frame.transactions
      /\ (pc = "mined" /\ pc' = "idle") =>
           /\ working'.held
           /\ working'.bc.chain[Len(working'.bc.chain)] = blk
           /\ blk.transactions = frame.transactions
      /\ working.held =>
           /\ working'.held
           /\ Len(working'.bc.chain) >= Len(working.bc.chain)
           /\ \A i \in 1..Len(working.bc.chain) :
                /\ working'.bc.chain[i].header.nonce = working.bc.chain[i].header.nonce
                /\ working'.bc.chain[i] = working.bc.chain[i]
    ]_vars

\* a block mined past a rejected nonce, still in the chain after a later
\* add_block
C19_Witness ==
  /\ working.held
  /\ Len(working.bc.chain) = 3
  /\ working.bc.chain[2].header.nonce > 0
  /\ working.bc.chain[2].header.timestamp = 9
  /\ working.bc.chain[2].transactions = Tx2
  /\ last.op = "add_block"

\* C20: an iter() iterator over a chain of n blocks returns the blocks at
\* indices 0, 1, ..., n-1 in that order, each once, and None at every call
\* after that; each call of iter() makes a fresh cursor at index 0, a call
\* of next on one cursor leaves every other cursor as it was, and no
\* iterator step changes the chain.
C20_IterInOrder ==
  /\ [](\A k \in CursorIds :
         (cursors[k].live /\ ~cursors[k].it.reverse) =>
           /\ Len(cursors[k].yielded) <= Len(working.bc.chain)
           /\ cursors[k].yielded =
                SubSeq(working.bc.chain, 1, Len(cursors[k].yielded))
           /\ cursors[k].nones > 0 =>
                Len(cursors[k].yielded) = Len(working.bc.chain))
  /\ [][ \A k \in CursorIds :
           /\ (~cursors[k].live /\ cursors'[k].live /\ ~cursors'[k].it.reverse) =>
                /\ cursors'[k].it.current_index = 0
                /\ cursors'[k].yielded = <<>>
                /\ cursors'[k].nones = 0
           /\ (/\ cursors[k].live /\ ~cursors[k].it.reverse
               /\ cursors'[k].live /\ cursors'[k] # cursors[k]) =>
                IF Len(cursors[k].yielded) < Len(working.bc.chain)
                THEN /\ cursors'[k].yielded =
                          Append(cursors[k].yielded,
                                 working.bc.chain[Len(cursors[k].yielded) + 1])
                     /\ cursors'[k].nones = 0
                ELSE /\ cursors'[k].yielded = cursors[k].yielded
                     /\ cursors'[k].nones = cursors[k].nones + 1
           /\ cursors'[k] # cursors[k] =>
                /\ \A j \in CursorIds \ {k} : cursors'[j] = cursors[j]
                /\ working' = working
      ]_vars

\* one iterator has returned the three blocks of the chain and then None
\* twice, while a second one, made from the same chain, has returned the
\* first block only
C20_Witness ==
  /\ working.held
  /\ Len(working.bc.chain) = 3
  /\ cursors[1].live /\ ~cursors[1].it.reverse
  /\ cursors[1].yielded = working.bc.chain
  /\ cursors[1].nones = 2
  /\ cursors[2].live /\ ~cursors[2].it.reverse
  /\ cursors[2].yielded = <<working.bc.chain[1]>>

\* C21: mine() run again on a block that is already mined makes one hash
\* computation, accepts it at once and leaves the block, nonce and hash
\* included, exactly as it was: the search goes on from the block's nonce,
\* not from 0.
C21_RemineIdempotent ==
  /\ (pc = "mining" /\ frame.op = "remine") =>
       /\ frame.hashes = 0
       /\ blk = made
  /\ (pc = "mined" /\ frame.op = "remine") =>
       /\ frame.hashes = 1
       /\ blk.header.nonce = made.header.nonce
       /\ blk.hash = made.hash
       /\ blk = made
  /\ pc = "panicked" => frame.op # "remine"

\* mine() has accepted at once a block of difficulty 16 whose nonce is 2 or
\* more
C21_Witness ==
  /\ pc = "mined"
  /\ frame.op = "remine"
  /\ frame.hashes = 1
  /\ made.header.difficulty = 16
  /\ made.header.nonce >= 2
  /\ blk.header.nonce = made.header.nonce
  /\ blk.hash = made.hash

\* C22: in a chain built by Blockchain::new(d) and add_block calls, the
\* chain's difficulty is d and stays d, and every block, the genesis block
\* included, has header.difficulty d and a hash whose top d bits are zero.
C22_ChainDifficulty ==
  /\ [](working.held =>
         \A i \in 1..Len(working.bc.chain) :
           /\ working.bc.chain[i].header.difficulty = working.bc.difficulty
           /\ Len(working.bc.chain[i].hash) = DigestLen
           /\ TopBitsZero(working.bc.chain[i].hash, working.bc.difficulty))
  /\ [][ /\ (pc = "mined" /\ frame.op = "chain_new") =>
             /\ working'.bc.difficulty = frame.bc.difficulty
             /\ blk.header.difficulty = frame.bc.difficulty
         /\ working.held => working'.bc.difficulty = working.bc.difficulty
      ]_vars

\* a chain of three blocks at the highest difficulty
C22_Witness ==
  /\ working.held
  /\ working.bc.difficulty = MaxDifficulty
  /\ Len(working.bc.chain) = 3
  /\ working.bc.chain[3].header.difficulty = MaxDifficulty
  /\ working.bc.chain[1].header.nonce # working.bc.chain[3].header.nonce

====
